---- MODULE Spec2Model ----
(***************************************************************************)
(* Model of the mutating operations of src/github_api.py: the multi-file   *)
(* commit (criar_commit_multiplo) and the single-file update               *)
(* (atualizar_arquivo) as they are reached through the MCP dispatcher of   *)
(* src/main.py (handle_mcp), and the single-file delete (excluir_arquivo), *)
(* which the dispatcher imports but does not expose, as a direct call.     *)
(* They run against a remote git object store.                             *)
(*                                                                         *)
(* Every remote call of the code is one action: the request, what the      *)
(* store does with it and what the code does with the response.  Between   *)
(* two calls of one run any other run, or another writer of the            *)
(* repository, may act.                                                    *)
(***************************************************************************)
EXTENDS Integers, Sequences, FiniteSets, TLC

(* ------------------------------ bounds --------------------------------- *)

\* Concurrent runs of the dispatcher (one request each).
NumRuns == 2
\* Longest list of file changes a request carries.
MaxChanges == 2
\* Pushes made by writers other than the modelled runs.
MaxExternal == 1

(* ------------------------------ domains -------------------------------- *)

Runs == 1..NumRuns
Paths == {"a.txt", "b.txt"}
Contents == {"1", "2"}
Branches == {"main", "dev"}
\* Python's None, for an omitted branch argument and for a missing JSON field.
None == "None"
\* A path that is not in a tree.
NoFile == "absent"
\* The content writers other than the modelled runs push.
ExtContent == "ext"

Alteracao == [path : Paths, conteudo : Contents]
\* Every request: any list of file changes, the branch given or omitted.
Alteracoes == UNION {[1..n -> Alteracao] : n \in 0..MaxChanges}
BranchArgs == Branches \cup {None}
\* The requests of racing runs: two files at once, or one file.
RaceAlteracoes ==
    {<<[path |-> "a.txt", conteudo |-> "2"], [path |-> "b.txt", conteudo |-> "2"]>>,
     <<[path |-> "b.txt", conteudo |-> "1"]>>}
RaceBranches == {"main", None}
\* File content that is not valid UTF-8.  A byte string that is valid UTF-8 is
\* written as the text it encodes.
Bin == "bin"
\* What a tree holds at a path that is a directory, and at one that is a
\* symbolic link.
Dir == "dir"
Link == "link"
\* A text that holds a null character, and one that holds a lone surrogate
\* (JSON can carry both; the second has no UTF-8 encoding).
Nul == "nul"
Surrogate == "surrogate"
\* The texts a caller writes when what matters is how they are encoded.
Texts == Contents \cup {Nul, Surrogate}
\* What a path can hold that is a regular file.
Bytes == Contents \cup {ExtContent, Bin, Nul}
\* The content argument of a single-file update: a text, possibly empty.
Conteudos == Contents \cup {""}
\* What another writer leaves at a path.
ExtValues == {ExtContent, Bin, Dir, Link, NoFile}
\* The run of the specification that explores every request: the first one.
Solo == CHOOSE r \in Runs : \A q \in Runs : r <= q

VARIABLES
    \* ---- the remote store
    commits,         \* sequence of commit objects; a commit's sha is its index
    trees,           \* sequence of tree objects; a tree's sha is its index
    refs,            \* branch name -> sha of its head commit, 0 when absent
    default_branch,  \* the repository's default branch
    externals,       \* pushes made so far by other writers
    \* ---- one run of an operation per element of Runs
    operation,       \* what the run does: "commit", "update", "delete" or
                     \* "read"
    pc,              \* the call the run issues next
    alteracoes,      \* argument: the list of file changes
    branch,          \* argument, then local: the branch name
    ref_sha,         \* local: sha read from the branch ref
    parent_sha,      \* local: sha of the head commit object
    tree_sha,        \* local: tree of the head commit object (the base tree)
    moved,           \* history: the head had moved when the run read the commit
    tree_data,       \* local: what the run sends to create the new tree
    new_tree_sha,    \* local: sha the store gave the new tree
    new_commit_sha,  \* local: sha the store gave the new commit
    path,            \* argument of update and delete: the file
    conteudo,        \* argument of update: the new content
    sha,             \* argument of update, then local: the blob sha sent
    result,          \* what the dispatcher answers
    arquivo_sha,     \* the blob sha an update's or a read's success result
                     \* carries
    content,         \* the text a read's success result carries
    \* ---- history
    calls,           \* the remote calls the run issued, with the status each got
    supplied,        \* the blob sha the caller of an update supplied
    defaults,        \* history: the default branch at each call naming a branch
    applied,         \* head of the branch right after the store applied the
                     \* run's write, 0 while it has applied none
    requests         \* what the run sent with each call that names a branch,
                     \* and what a read gave back

store == <<commits, trees, refs, default_branch, externals>>
locals == <<alteracoes, branch, ref_sha, moved, parent_sha, tree_sha, tree_data,
            new_tree_sha, new_commit_sha>>
\* What only the single-file operations use.
filevars == <<operation, path, conteudo, sha, arquivo_sha, content,
              supplied, defaults>>
vars == <<commits, trees, refs, default_branch, externals, pc, alteracoes,
          branch, ref_sha, moved, parent_sha, tree_sha, tree_data, new_tree_sha,
          new_commit_sha, result, calls, applied, operation, path, conteudo, sha, arquivo_sha,
          content, supplied, defaults, requests>>

(* --------------------------- the remote store -------------------------- *)

\* The tree every branch starts from.
InitialTree == [p \in Paths |-> IF p = "a.txt" THEN "1" ELSE NoFile]

\* Upsert by path, entry after entry.
RECURSIVE Overlay(_, _)
Overlay(tree, entries) ==
    IF entries = <<>> THEN tree
    ELSE Overlay([tree EXCEPT ![Head(entries).path] = Head(entries).content],
                 Tail(entries))

\* a is c or one of c's ancestors.
RECURSIVE IsAncestor(_, _)
IsAncestor(a, c) ==
    \/ a = c
    \/ /\ c \in 1..Len(commits)
       /\ \E i \in 1..Len(commits[c].parents) : IsAncestor(a, commits[c].parents[i])

\* The sha of a tree: trees are content-addressed.
TreeShaOf(tree) ==
    IF \E t \in 1..Len(trees) : trees[t] = tree
    THEN CHOOSE t \in 1..Len(trees) : trees[t] = tree
    ELSE Len(trees) + 1

\* GET /repos/{owner}/{repo}
StoreGetRepo ==
    [status |-> "200", default_branch |-> default_branch]

\* GET /repos/{owner}/{repo}/git/refs/heads/{branch}
StoreGetRef(b) ==
    IF b \in Branches /\ refs[b] # 0
    THEN [status |-> "200", sha |-> refs[b]]
    ELSE [status |-> "404", sha |-> 0]

\* GET /repos/{owner}/{repo}/git/commits/{sha}
StoreGetCommit(c) ==
    IF c \in 1..Len(commits)
    THEN [status |-> "200", sha |-> c, tree |-> commits[c].tree]
    ELSE [status |-> "404", sha |-> 0, tree |-> 0]

\* POST /repos/{owner}/{repo}/git/trees
StoreCreateTree(body) ==
    LET base == IF body.base_tree \in 1..Len(trees)
                THEN trees[body.base_tree]
                ELSE [p \in Paths |-> NoFile]
        new == Overlay(base, body.tree)
    IN  IF body.base_tree # 0 /\ body.base_tree \notin 1..Len(trees)
        THEN [status |-> "422", sha |-> 0, trees |-> trees]
        ELSE [status |-> "201", sha |-> TreeShaOf(new),
              trees |-> IF TreeShaOf(new) > Len(trees) THEN Append(trees, new)
                        ELSE trees]

\* POST /repos/{owner}/{repo}/git/commits
StoreCreateCommit(commit_data, by) ==
    IF /\ commit_data.tree \in 1..Len(trees)
       /\ \A i \in 1..Len(commit_data.parents) :
              commit_data.parents[i] \in 1..Len(commits)
    THEN [status |-> "201", sha |-> Len(commits) + 1,
          commits |-> Append(commits, [parents |-> commit_data.parents,
                                       tree |-> commit_data.tree, by |-> by])]
    ELSE [status |-> "422", sha |-> 0, commits |-> commits]

\* PATCH /repos/{owner}/{repo}/git/refs/heads/{branch}: the store moves the
\* ref when forced or when the move is a fast-forward.
StoreUpdateRef(b, ref_data) ==
    IF b \notin Branches \/ refs[b] = 0
    THEN [status |-> "404", refs |-> refs]
    ELSE IF ref_data.sha \notin 1..Len(commits)
    THEN [status |-> "422", refs |-> refs]
    ELSE IF ref_data.force \/ IsAncestor(refs[b], ref_data.sha)
    THEN [status |-> "200", refs |-> [refs EXCEPT ![b] = ref_data.sha]]
    ELSE [status |-> "422", refs |-> refs]

\* The tree at the head of an existing branch, as a map from path to content.
HeadTree(b) == trees[commits[refs[b]].tree]

\* The fingerprint of a file: blobs are content-addressed, so the sha is a
\* function of the bytes and of nothing else.
BlobSha(bytes) == "sha-" \o bytes

\* Base64, as the store and the code apply it.
B64Encode(bytes) == "b64-" \o bytes
IsB64(text) == \E v \in Bytes : B64Encode(v) = text
B64Decode(text) == CHOOSE v \in Bytes : B64Encode(v) = text

\* GET /repos/{owner}/{repo}/contents/{path}?ref={branch}: a JSON object for
\* a file or a link, a JSON list for a directory.
StoreGetContents(p, b) ==
    IF b \notin Branches \/ refs[b] = 0 \/ HeadTree(b)[p] = NoFile
    THEN [status |-> "404", json |-> "none", type |-> None, sha |-> None,
          content |-> None]
    ELSE IF HeadTree(b)[p] = Dir
    THEN [status |-> "200", json |-> "list", type |-> None, sha |-> None,
          content |-> None]
    ELSE IF HeadTree(b)[p] = Link
    THEN [status |-> "200", json |-> "object", type |-> "symlink",
          sha |-> BlobSha(Link), content |-> None]
    ELSE [status |-> "200", json |-> "object", type |-> "file",
          sha |-> BlobSha(HeadTree(b)[p]),
          content |-> B64Encode(HeadTree(b)[p])]

\* The store commits a new value of one path on top of a branch.
StoreCommitPath(b, p, value, status) ==
    LET new == [HeadTree(b) EXCEPT ![p] = value]
        t == TreeShaOf(new)
    IN  [status |-> status,
         trees |-> IF t > Len(trees) THEN Append(trees, new) ELSE trees,
         commits |-> Append(commits, [parents |-> <<refs[b]>>, tree |-> t,
                                      by |-> 0]),
         refs |-> [refs EXCEPT ![b] = Len(commits) + 1],
         commit_sha |-> Len(commits) + 1,
         content_sha |-> IF value = NoFile THEN None ELSE BlobSha(value)]

\* The store refuses a write of one path.
StoreRefuse(status) ==
    [status |-> status, trees |-> trees, commits |-> commits, refs |-> refs,
     commit_sha |-> 0, content_sha |-> None]

\* PUT /repos/{owner}/{repo}/contents/{path}: without a sha the store creates
\* the file and refuses when it exists; with a sha it replaces the file when
\* the sha is the one of the file's current blob and refuses otherwise.
StorePutContents(p, data) ==
    IF data.branch \notin Branches \/ refs[data.branch] = 0
    THEN StoreRefuse("404")
    ELSE IF ~IsB64(data.content) \/ HeadTree(data.branch)[p] \in {Dir, Link}
    THEN StoreRefuse("422")
    ELSE IF HeadTree(data.branch)[p] = NoFile
    THEN IF data.sha = None
         THEN StoreCommitPath(data.branch, p, B64Decode(data.content), "201")
         ELSE StoreRefuse("422")
    ELSE IF data.sha = None
    THEN StoreRefuse("422")
    ELSE IF data.sha # BlobSha(HeadTree(data.branch)[p])
    THEN StoreRefuse("409")
    ELSE StoreCommitPath(data.branch, p, B64Decode(data.content), "200")

\* DELETE /repos/{owner}/{repo}/contents/{path}: the store removes the file
\* when the sha is the one of the file's current blob.
StoreDeleteContents(p, data) ==
    IF \/ data.branch \notin Branches \/ refs[data.branch] = 0
       \/ HeadTree(data.branch)[p] = NoFile
    THEN StoreRefuse("404")
    ELSE IF HeadTree(data.branch)[p] \in {Dir, Link}
    THEN StoreRefuse("422")
    ELSE IF data.sha # BlobSha(HeadTree(data.branch)[p])
    THEN StoreRefuse("409")
    ELSE StoreCommitPath(data.branch, p, NoFile, "200")

\* What the network does with one call: deliver it and its response, fail
\* before the store saw the request, or fail after the store answered.
NetOutcomes == {"ok", "dropped", "lost"}
Delivered(net) == net \in {"ok", "lost"}
\* The status the code sees: "neterr" is an exception raised by requests.*.
Seen(net, status) == IF net = "ok" THEN status ELSE "neterr"

(* ------------------------------ the code ------------------------------- *)

\* Mutant: the dispatcher does not check its parameters.
ValidArgsUnchecked(alts) == TRUE

\* main.py: all([repo_owner, repo_name, mensagem_commit, alteracoes]); the
\* three strings are given, an empty list is falsy.
ValidArgs(alts) == Len(alts) > 0

\* Mutant: the status of a response is never looked at.
RaiseForStatusNever(status) == FALSE

\* response.raise_for_status(): raises on a 4xx or 5xx status.
RaiseForStatus(status) == status \in {"404", "409", "422"}

\* requests.get/post/patch raised, or raise_for_status() did.
Raised(status) == status = "neterr" \/ RaiseForStatus(status)

\* Mutant: the commit is created before the tree.
AfterCallCommitFirst(op) ==
    CASE op = "get_repo" -> "get_ref"
      [] op = "get_ref" -> "get_commit"
      [] op = "get_commit" -> "post_commit"
      [] op = "post_commit" -> "post_tree"
      [] op = "post_tree" -> "patch_ref"
      [] op = "patch_ref" -> "done"

\* The order of the remote calls in criar_commit_multiplo: what follows a call
\* that returned without raising.
AfterCall(op) ==
    CASE op = "get_repo" -> "get_ref"
      [] op = "get_ref" -> "get_commit"
      [] op = "get_commit" -> "post_tree"
      [] op = "post_tree" -> "post_commit"
      [] op = "post_commit" -> "patch_ref"
      [] op = "patch_ref" -> "done"

\* Mutant: the item is appended after the loop, so only the last one is sent.
TreeItemsLastOnly(alts) ==
    IF alts = <<>> THEN <<>>
    ELSE <<[path |-> alts[Len(alts)].path, mode |-> "100644", type |-> "blob",
            content |-> alts[Len(alts)].conteudo]>>

\* The loop over alteracoes: one tree item per file change, in order.
TreeItems(alts) ==
    [i \in 1..Len(alts) |->
        [path |-> alts[i].path, mode |-> "100644", type |-> "blob",
         content |-> alts[i].conteudo]]

\* Mutant: the tree is created without a base tree.
TreeDataNoBase(base, alts) == [base_tree |-> 0, tree |-> TreeItems(alts)]

\* tree_data: the base tree and the items.
TreeData(base, alts) == [base_tree |-> base, tree |-> TreeItems(alts)]

\* Mutant: the base tree is the tree of whatever commit heads main now.
ParentAndTreeOfHead(resp) ==
    [parent_sha |-> resp.sha, tree_sha |-> commits[refs["main"]].tree]

\* parent_sha and tree_sha: both are fields of the one commit object read.
ParentAndTree(resp) == [parent_sha |-> resp.sha, tree_sha |-> resp.tree]

\* Mutant: the commit is created without a parent.
CommitDataNoParent(parent, tree) == [parents |-> <<>>, tree |-> tree]

\* commit_data: the head commit read is the only parent.
CommitData(parent, tree) == [parents |-> <<parent>>, tree |-> tree]

\* Mutant: the ref update is forced.
RefDataForced(c) == [sha |-> c, force |-> TRUE]

\* ref_data: the new commit, never forced.
RefData(c) == [sha |-> c, force |-> FALSE]

\* The except branch: the exception's text is the message.
FailureResult(status) ==
    [rpc |-> "result", sucesso |-> FALSE, mensagem |-> status, sha |-> 0]

SuccessResult(c) ==
    [rpc |-> "result", sucesso |-> TRUE, mensagem |-> "ok", sha |-> c]

\* The success result of a single-file operation: the message names what was
\* done, the sha is the one of the commit the store made.
FileSuccessResult(c, done) ==
    [rpc |-> "result", sucesso |-> TRUE, mensagem |-> done, sha |-> c]

\* The dispatcher's JSON-RPC error for missing parameters.
InvalidParams ==
    [rpc |-> "error", sucesso |-> FALSE, mensagem |-> "-32602", sha |-> 0]

NoResult == [rpc |-> "none", sucesso |-> FALSE, mensagem |-> "", sha |-> 0]

Logged(r, call, status) ==
    [calls EXCEPT ![r] = Append(@, [op |-> call, status |-> status])]

\* What a call carried: the branch it names, the blob sha and the force flag
\* it sent, and what it read (a default branch or a blob sha).
Request(call, b, s, force, got) ==
    [op |-> call, branch |-> b, sha |-> s, force |-> force, got |-> got]
Sent(r, request) == [requests EXCEPT ![r] = Append(@, request)]

\* Mutant: only the errors of the requests library are caught.
CatchesRequestsOnly(exc) == exc \in {"neterr", "404", "409", "422"}

\* except Exception as e: every exception a call, or the handling of its
\* reply, raises.
Catches(exc) == TRUE

\* The run leaves through the except branch.
Fail(r, status) ==
    IF Catches(status)
    THEN /\ pc' = [pc EXCEPT ![r] = "done"]
         /\ result' = [result EXCEPT ![r] = FailureResult(status)]
    ELSE /\ pc' = [pc EXCEPT ![r] = "raised"]
         /\ UNCHANGED result

\* Mutant: the default branch is queried whatever branch was given.
NoBranchAlways(b) == TRUE

\* Mutant: the process remembers that it asked for the default branch, and
\* only its first operation asks.
NoBranchFirstOnly(b) == b = None /\ \A q \in Runs : calls[q] = <<>>

\* if not branch: the request names no branch.
NoBranch(b) == b = None

\* Mutant: the default branch is taken to be "main" without looking.
DefaultBranchAssumed(resp) == "main"

\* repo_response.json().get("default_branch", "main")
DefaultBranch(resp) == resp.default_branch

\* Mutant: the guard reads the file whatever the caller supplied.
NeedsReadAlways(s) == TRUE

\* Mutant: the guard never reads the file.
NeedsReadNever(s) == FALSE

\* atualizar_arquivo, if not sha: the caller supplied no blob sha.
NeedsRead(s) == s = None

\* bytes.decode("utf-8") raises on a byte string that is not valid UTF-8.
Utf8Decodes(bytes) == bytes # Bin
\* str.encode("utf-8") raises on a text that holds a lone surrogate.
Utf8Encodes(text) == text # Surrogate
\* str.encode("utf-8"): the byte string that is written as the text itself.
Utf8Encode(text) == text

\* Mutant: the content of the reply is returned as it came.
DecodeContentRaw(text) == text

\* base64.b64decode(file_info.get("content")).decode("utf-8")
DecodeContent(text) == B64Decode(text)

\* The exception obter_conteudo_arquivo meets while it handles the reply of
\* its read, "none" when it meets none: the call or raise_for_status()
\* raised, the JSON is a list (it has no .get), or the content is not text.
ReadError(status, resp) ==
    IF Raised(status) THEN status
    ELSE IF resp.json = "list" THEN "AttributeError"
    ELSE IF resp.type = "file" /\ ~Utf8Decodes(B64Decode(resp.content))
    THEN "UnicodeDecodeError"
    ELSE "none"

\* What obter_conteudo_arquivo returns: it returns a result for every
\* exception it catches and for a path that is not a file.
FileInfo(status, resp) ==
    IF ReadError(status, resp) # "none"
    THEN [sucesso |-> FALSE, mensagem |-> ReadError(status, resp),
          sha |-> None, conteudo |-> None]
    ELSE IF resp.type # "file"
    THEN [sucesso |-> FALSE, mensagem |-> "not_a_file", sha |-> None,
          conteudo |-> None]
    ELSE [sucesso |-> TRUE, mensagem |-> "ok", sha |-> resp.sha,
          conteudo |-> DecodeContent(resp.content)]

\* Mutant: the delete goes on after a read that did not succeed.
AbortsDeleteNever(file_info) == FALSE

\* excluir_arquivo, if not file_info["sucesso"]: return file_info
AbortsDelete(file_info) == ~file_info.sucesso

\* Mutant: the update returns the result of a read that did not succeed, as
\* excluir_arquivo does.
AbortsUpdateOnFailure(file_info) == ~file_info.sucesso

\* atualizar_arquivo after its read: file_info is looked at only to take the
\* sha of a read that succeeded, and whatever the read raises is passed over;
\* no outcome of the read ends the update.
AbortsUpdate(file_info) == FALSE

\* Mutant: the write names whatever branch is the default one now.
PutDataOfDefault(text, b, s) ==
    [content |-> B64Encode(Utf8Encode(text)), branch |-> default_branch,
     sha |-> s]

\* Mutant: the blob sha is left out of the write.
PutDataNoSha(text, b, s) ==
    [content |-> B64Encode(Utf8Encode(text)), branch |-> b, sha |-> None]

\* atualizar_arquivo, data: the content in Base64, the branch, and the blob
\* sha when there is one (None stands for a request without the key).
PutData(text, b, s) ==
    [content |-> B64Encode(Utf8Encode(text)), branch |-> b, sha |-> s]

\* excluir_arquivo, data: the blob sha read and the branch.
DeleteData(s, b) == [sha |-> s, branch |-> b]

\* main.py: all([repo_owner, repo_name, path, conteudo, mensagem_commit]);
\* the other strings are given, an empty content is falsy.
ValidFileArgs(text) == text # ""

\* What follows the resolution of the branch: atualizar_arquivo reads the
\* file when it has no blob sha, excluir_arquivo always reads it, and
\* obter_conteudo_arquivo called on its own does nothing else.
AfterBranch(o, s) ==
    IF o \in {"delete", "read"} \/ NeedsRead(s) THEN "get_contents"
    ELSE "put_contents"

(* ------------------------------ actions -------------------------------- *)

Init ==
    /\ trees = <<InitialTree>>
    /\ commits = <<[parents |-> <<>>, tree |-> 1, by |-> 0]>>
    /\ refs = [b \in Branches |-> IF b = "main" THEN 1 ELSE 0]
    /\ default_branch = "main"
    /\ externals = 0
    /\ pc = [r \in Runs |-> "idle"]
    /\ alteracoes = [r \in Runs |-> <<>>]
    /\ branch = [r \in Runs |-> None]
    /\ ref_sha = [r \in Runs |-> 0]
    /\ parent_sha = [r \in Runs |-> 0]
    /\ tree_sha = [r \in Runs |-> 0]
    /\ moved = [r \in Runs |-> FALSE]
    /\ tree_data = [r \in Runs |-> [base_tree |-> 0, tree |-> <<>>]]
    /\ new_tree_sha = [r \in Runs |-> 0]
    /\ new_commit_sha = [r \in Runs |-> 0]
    /\ result = [r \in Runs |-> NoResult]
    /\ calls = [r \in Runs |-> <<>>]
    /\ applied = [r \in Runs |-> 0]
    /\ operation = [r \in Runs |-> None]
    /\ path = [r \in Runs |-> None]
    /\ conteudo = [r \in Runs |-> None]
    /\ sha = [r \in Runs |-> None]
    /\ arquivo_sha = [r \in Runs |-> None]
    /\ content = [r \in Runs |-> None]
    /\ supplied = [r \in Runs |-> None]
    /\ defaults = [r \in Runs |-> <<>>]
    /\ requests = [r \in Runs |-> <<>>]

\* handle_mcp, tool gh_criar_commit_multiplo: reject missing parameters,
\* otherwise enter criar_commit_multiplo.
\* Runs are numbered in the order their requests arrive.
HandleMcp(r, alts, b) ==
    /\ pc[r] = "idle"
    /\ \A q \in Runs : q < r => pc[q] # "idle"
    /\ operation' = [operation EXCEPT ![r] = "commit"]
    /\ alteracoes' = [alteracoes EXCEPT ![r] = alts]
    /\ branch' = [branch EXCEPT ![r] = b]
    /\ IF ValidArgs(alts)
       THEN /\ pc' = [pc EXCEPT ![r] = IF NoBranch(b) THEN "get_repo"
                                     ELSE AfterCall("get_repo")]
            /\ UNCHANGED result
       ELSE /\ pc' = [pc EXCEPT ![r] = "done"]
            /\ result' = [result EXCEPT ![r] = InvalidParams]
    /\ UNCHANGED <<store, ref_sha, moved, parent_sha, tree_sha, new_tree_sha, tree_data,
                   new_commit_sha, calls, applied, path, conteudo, sha,
                   arquivo_sha, content, supplied, defaults, requests>>

\* if not branch: query the repository for its default branch.
GetRepo(r) ==
    /\ pc[r] = "get_repo"
    /\ \E net \in NetOutcomes :
        LET resp == StoreGetRepo
            status == Seen(net, resp.status)
        IN  /\ calls' = Logged(r, "get_repo", status)
            /\ requests' = Sent(r, Request("get_repo", None, None, FALSE,
                                IF Raised(status) THEN None
                                ELSE resp.default_branch))
            /\ IF Raised(status)
               THEN Fail(r, status) /\ UNCHANGED branch
               ELSE /\ branch' = [branch EXCEPT ![r] = DefaultBranch(resp)]
                    /\ pc' = [pc EXCEPT ![r] = AfterCall("get_repo")]
                    /\ UNCHANGED result
    /\ UNCHANGED <<store, alteracoes, ref_sha, moved, parent_sha, tree_sha,
                   new_tree_sha, tree_data, new_commit_sha, applied, filevars>>

\* Read the branch ref.
GetRef(r) ==
    /\ pc[r] = "get_ref"
    /\ \E net \in NetOutcomes :
        LET resp == StoreGetRef(branch[r])
            status == Seen(net, resp.status)
        IN  /\ calls' = Logged(r, "get_ref", status)
            /\ requests' = Sent(r, Request("get_ref", branch[r], None, FALSE,
                                           None))
            /\ IF Raised(status)
               THEN Fail(r, status) /\ UNCHANGED ref_sha
               ELSE /\ ref_sha' = [ref_sha EXCEPT ![r] = resp.sha]
                    /\ pc' = [pc EXCEPT ![r] = AfterCall("get_ref")]
                    /\ UNCHANGED result
    /\ UNCHANGED <<store, alteracoes, branch, moved, parent_sha, tree_sha,
                   new_tree_sha, tree_data, new_commit_sha, applied, filevars>>

\* Read the head commit object: its sha is the parent, its tree the base tree.
GetCommit(r) ==
    /\ pc[r] = "get_commit"
    /\ \E net \in NetOutcomes :
        LET resp == StoreGetCommit(ref_sha[r])
            status == Seen(net, resp.status)
        IN  /\ calls' = Logged(r, "get_commit", status)
            /\ moved' = [moved EXCEPT ![r] = refs[branch[r]] # ref_sha[r]]
            /\ IF Raised(status)
               THEN Fail(r, status) /\ UNCHANGED <<parent_sha, tree_sha>>
               ELSE /\ parent_sha' = [parent_sha EXCEPT ![r] = ParentAndTree(resp).parent_sha]
                    /\ tree_sha' = [tree_sha EXCEPT ![r] = ParentAndTree(resp).tree_sha]
                    /\ pc' = [pc EXCEPT ![r] = AfterCall("get_commit")]
                    /\ UNCHANGED result
    /\ UNCHANGED <<store, alteracoes, branch, ref_sha, new_tree_sha, tree_data,
                   new_commit_sha, applied, filevars, requests>>

\* Build the tree items and create the new tree.
PostTree(r) ==
    /\ pc[r] = "post_tree"
    /\ \E net \in NetOutcomes :
        LET data == TreeData(tree_sha[r], alteracoes[r])
            resp == StoreCreateTree(data)
            status == Seen(net, resp.status)
        IN  /\ tree_data' = [tree_data EXCEPT ![r] = data]
            /\ calls' = Logged(r, "post_tree", status)
            /\ trees' = IF Delivered(net) THEN resp.trees ELSE trees
            /\ IF Raised(status)
               THEN Fail(r, status) /\ UNCHANGED new_tree_sha
               ELSE /\ new_tree_sha' = [new_tree_sha EXCEPT ![r] = resp.sha]
                    /\ pc' = [pc EXCEPT ![r] = AfterCall("post_tree")]
                    /\ UNCHANGED result
    /\ UNCHANGED <<commits, refs, default_branch, externals, alteracoes, branch,
                   ref_sha, moved, parent_sha, tree_sha, new_commit_sha, applied,
                   filevars, requests>>

\* Create the new commit.
PostCommit(r) ==
    /\ pc[r] = "post_commit"
    /\ \E net \in NetOutcomes :
        LET resp == StoreCreateCommit(CommitData(parent_sha[r], new_tree_sha[r]), r)
            status == Seen(net, resp.status)
        IN  /\ calls' = Logged(r, "post_commit", status)
            /\ commits' = IF Delivered(net) THEN resp.commits ELSE commits
            /\ IF Raised(status)
               THEN Fail(r, status) /\ UNCHANGED new_commit_sha
               ELSE /\ new_commit_sha' = [new_commit_sha EXCEPT ![r] = resp.sha]
                    /\ pc' = [pc EXCEPT ![r] = AfterCall("post_commit")]
                    /\ UNCHANGED result
    /\ UNCHANGED <<trees, refs, default_branch, externals, alteracoes, branch,
                   ref_sha, moved, parent_sha, tree_sha, new_tree_sha, tree_data, applied,
                   filevars, requests>>

\* Update the branch ref, then return the success result.
PatchRef(r) ==
    /\ pc[r] = "patch_ref"
    /\ \E net \in NetOutcomes :
        LET resp == StoreUpdateRef(branch[r], RefData(new_commit_sha[r]))
            status == Seen(net, resp.status)
        IN  /\ calls' = Logged(r, "patch_ref", status)
            /\ requests' = Sent(r, Request("patch_ref", branch[r], None,
                                RefData(new_commit_sha[r]).force, None))
            /\ refs' = IF Delivered(net) THEN resp.refs ELSE refs
            /\ applied' = IF Delivered(net) /\ resp.status = "200"
                          THEN [applied EXCEPT ![r] = resp.refs[branch[r]]]
                          ELSE applied
            /\ IF Raised(status)
               THEN Fail(r, status)
               ELSE /\ pc' = [pc EXCEPT ![r] = AfterCall("patch_ref")]
                    /\ result' = [result EXCEPT ![r] =
                                    SuccessResult(new_commit_sha[r])]
    /\ UNCHANGED <<commits, trees, default_branch, externals, locals,
                   filevars>>

\* Another writer of the repository pushes one commit on top of a branch.
ExternalPush ==
    /\ externals < MaxExternal
    /\ \E b \in Branches, p \in Paths :
        /\ refs[b] # 0
        /\ LET t == StoreCreateTree([base_tree |-> commits[refs[b]].tree,
                        tree |-> <<[path |-> p, content |-> ExtContent]>>])
               c == [parents |-> <<refs[b]>>, tree |-> t.sha, by |-> 0]
           IN  /\ trees' = t.trees
               /\ commits' = Append(commits, c)
               /\ refs' = [refs EXCEPT ![b] = Len(commits) + 1]
    /\ externals' = externals + 1
    /\ UNCHANGED <<default_branch, pc, locals, result, calls, applied,
                   filevars, requests>>

\* handle_mcp, tool gh_atualizar_arquivo: reject missing parameters,
\* otherwise enter atualizar_arquivo, which resolves the branch first.
HandleMcpAtualizar(r, p, text, b, s) ==
    /\ pc[r] = "idle"
    /\ \A q \in Runs : q < r => pc[q] # "idle"
    /\ operation' = [operation EXCEPT ![r] = "update"]
    /\ path' = [path EXCEPT ![r] = p]
    /\ conteudo' = [conteudo EXCEPT ![r] = text]
    /\ branch' = [branch EXCEPT ![r] = b]
    /\ sha' = [sha EXCEPT ![r] = s]
    /\ supplied' = [supplied EXCEPT ![r] = s]
    /\ UNCHANGED defaults
    /\ IF ValidFileArgs(text)
       THEN /\ pc' = [pc EXCEPT ![r] = IF NoBranch(b) THEN "get_default"
                                     ELSE AfterBranch("update", s)]
            /\ UNCHANGED result
       ELSE /\ pc' = [pc EXCEPT ![r] = "done"]
            /\ result' = [result EXCEPT ![r] = InvalidParams]
    /\ UNCHANGED <<store, alteracoes, ref_sha, moved, parent_sha, tree_sha,
                   new_tree_sha, tree_data, new_commit_sha, calls, applied, arquivo_sha,
                   content, requests>>

\* handle_mcp, tool gh_obter_conteudo_arquivo: enter obter_conteudo_arquivo,
\* which resolves the branch first.
HandleMcpObter(r, p, b) ==
    /\ pc[r] = "idle"
    /\ \A q \in Runs : q < r => pc[q] # "idle"
    /\ operation' = [operation EXCEPT ![r] = "read"]
    /\ path' = [path EXCEPT ![r] = p]
    /\ branch' = [branch EXCEPT ![r] = b]
    /\ pc' = [pc EXCEPT ![r] = IF NoBranch(b) THEN "get_default"
                              ELSE AfterBranch("read", None)]
    /\ UNCHANGED <<store, alteracoes, ref_sha, moved, parent_sha, tree_sha,
                   new_tree_sha, tree_data, new_commit_sha, result, calls, applied,
                   conteudo, sha, arquivo_sha, content, supplied, defaults, requests>>

\* excluir_arquivo, called directly: it starts with obter_conteudo_arquivo,
\* which resolves the branch first.
ExcluirArquivo(r, p, b) ==
    /\ pc[r] = "idle"
    /\ \A q \in Runs : q < r => pc[q] # "idle"
    /\ operation' = [operation EXCEPT ![r] = "delete"]
    /\ path' = [path EXCEPT ![r] = p]
    /\ branch' = [branch EXCEPT ![r] = b]
    /\ pc' = [pc EXCEPT ![r] = IF NoBranch(b) THEN "get_default"
                              ELSE AfterBranch("delete", None)]
    /\ UNCHANGED <<store, alteracoes, ref_sha, moved, parent_sha, tree_sha,
                   new_tree_sha, tree_data, new_commit_sha, result, calls, applied,
                   conteudo, sha, arquivo_sha, content, supplied, defaults, requests>>

\* excluir_arquivo after a read that gave file_info without success: it
\* returns file_info; were it to go on, file_info["sha"] would raise.
ReturnFileInfo(r, file_info) ==
    IF AbortsDelete(file_info)
    THEN /\ pc' = [pc EXCEPT ![r] = "done"]
         /\ result' = [result EXCEPT ![r] = FailureResult(file_info.mensagem)]
    ELSE Fail(r, "KeyError")

\* An exception inside obter_conteudo_arquivo called by excluir_arquivo: the
\* except branch of the first turns it into file_info, and what neither
\* except branch catches leaves the run.
ReadFailed(r, exc) ==
    IF Catches(exc)
    THEN ReturnFileInfo(r, [sucesso |-> FALSE, mensagem |-> exc])
    ELSE Fail(r, exc)

\* if not branch, in atualizar_arquivo and in obter_conteudo_arquivo when
\* excluir_arquivo calls it: query the repository for its default branch.
GetDefault(r) ==
    /\ pc[r] = "get_default"
    /\ \E net \in NetOutcomes :
        LET resp == StoreGetRepo
            status == Seen(net, resp.status)
        IN  /\ calls' = Logged(r, "get_repo", status)
            /\ requests' = Sent(r, Request("get_repo", None, None, FALSE,
                                IF Raised(status) THEN None
                                ELSE resp.default_branch))
            /\ IF Raised(status)
               THEN /\ IF operation[r] = "delete" THEN ReadFailed(r, status)
                       ELSE Fail(r, status)
                    /\ UNCHANGED branch
               ELSE /\ branch' = [branch EXCEPT ![r] = DefaultBranch(resp)]
                    /\ pc' = [pc EXCEPT ![r] =
                                 AfterBranch(operation[r], sha[r])]
                    /\ UNCHANGED result
    /\ UNCHANGED <<store, alteracoes, ref_sha, moved, parent_sha, tree_sha,
                   new_tree_sha, tree_data, new_commit_sha, applied, filevars>>

\* obter_conteudo_arquivo with the branch resolved: read the file.  In
\* atualizar_arquivo the blob sha is taken from a read that succeeded and
\* every other outcome is passed over; in excluir_arquivo a read that did not
\* succeed ends the run; called on its own, its return value is the result.
GetContents(r) ==
    /\ pc[r] = "get_contents"
    /\ \E net \in NetOutcomes :
        LET resp == StoreGetContents(path[r], branch[r])
            status == Seen(net, resp.status)
            file_info == FileInfo(status, resp)
        IN  /\ calls' = Logged(r, "get_contents", status)
            /\ defaults' = [defaults EXCEPT ![r] = Append(@, default_branch)]
            /\ requests' = Sent(r, Request("get_contents", branch[r], None,
                                           FALSE, file_info.sha))
            /\ IF operation[r] = "update"
               THEN /\ IF AbortsUpdate(file_info)
                       THEN /\ pc' = [pc EXCEPT ![r] = "done"]
                            /\ result' = [result EXCEPT ![r] =
                                    FailureResult(file_info.mensagem)]
                            /\ UNCHANGED sha
                       ELSE /\ sha' = [sha EXCEPT ![r] =
                                          IF file_info.sucesso THEN file_info.sha
                                          ELSE @]
                            /\ pc' = [pc EXCEPT ![r] = "put_contents"]
                            /\ UNCHANGED result
                    /\ UNCHANGED <<arquivo_sha, content>>
               ELSE IF operation[r] = "read"
               THEN /\ IF file_info.sucesso
                       THEN /\ pc' = [pc EXCEPT ![r] = "done"]
                            /\ result' = [result EXCEPT ![r] =
                                    FileSuccessResult(0, "lido")]
                       ELSE IF ReadError(status, resp) # "none"
                       THEN Fail(r, ReadError(status, resp))
                       ELSE /\ pc' = [pc EXCEPT ![r] = "done"]
                            /\ result' = [result EXCEPT ![r] =
                                    FailureResult(file_info.mensagem)]
                    /\ arquivo_sha' = [arquivo_sha EXCEPT ![r] = file_info.sha]
                    /\ content' = [content EXCEPT ![r] = file_info.conteudo]
                    /\ UNCHANGED sha
               ELSE IF file_info.sucesso
               THEN /\ sha' = [sha EXCEPT ![r] = file_info.sha]
                    /\ pc' = [pc EXCEPT ![r] = "delete_contents"]
                    /\ UNCHANGED <<result, arquivo_sha, content>>
               ELSE /\ IF ReadError(status, resp) # "none"
                       THEN ReadFailed(r, ReadError(status, resp))
                       ELSE ReturnFileInfo(r, file_info)
                    /\ UNCHANGED <<sha, arquivo_sha, content>>
    /\ UNCHANGED <<store, alteracoes, branch, ref_sha, moved, parent_sha, tree_sha,
                   new_tree_sha, tree_data, new_commit_sha, applied, operation, path,
                   conteudo, supplied>>

\* atualizar_arquivo: encode the content, which ends the run when the text
\* has no encoding; send the write, with the blob sha when there is one, then
\* return the success result.
PutContents(r) ==
    /\ pc[r] = "put_contents"
    /\ IF ~Utf8Encodes(conteudo[r])
       THEN /\ Fail(r, "UnicodeEncodeError")
            /\ UNCHANGED <<commits, trees, refs, calls, requests, applied,
                           arquivo_sha, defaults>>
       ELSE \E net \in NetOutcomes :
        LET data == PutData(conteudo[r], branch[r], sha[r])
            resp == StorePutContents(path[r], data)
            status == Seen(net, resp.status)
        IN  /\ calls' = Logged(r, "put_contents", status)
            /\ defaults' = [defaults EXCEPT ![r] = Append(@, default_branch)]
            /\ requests' = Sent(r, Request("put_contents", data.branch,
                                           data.sha, FALSE, None))
            /\ trees' = IF Delivered(net) THEN resp.trees ELSE trees
            /\ commits' = IF Delivered(net) THEN resp.commits ELSE commits
            /\ refs' = IF Delivered(net) THEN resp.refs ELSE refs
            /\ applied' = IF Delivered(net) /\ resp.commit_sha # 0
                          THEN [applied EXCEPT ![r] = resp.commit_sha]
                          ELSE applied
            /\ IF Raised(status)
               THEN Fail(r, status) /\ UNCHANGED arquivo_sha
               ELSE /\ pc' = [pc EXCEPT ![r] = "done"]
                    /\ result' = [result EXCEPT ![r] =
                            FileSuccessResult(resp.commit_sha,
                                IF sha[r] # None THEN "atualizado"
                                ELSE "criado")]
                    /\ arquivo_sha' = [arquivo_sha EXCEPT ![r] =
                                          resp.content_sha]
    /\ UNCHANGED <<default_branch, externals, locals, operation, path,
                   conteudo, sha, content, supplied>>

\* excluir_arquivo: send the delete with the blob sha read, then return the
\* success result.
DeleteContents(r) ==
    /\ pc[r] = "delete_contents"
    /\ \E net \in NetOutcomes :
        LET data == DeleteData(sha[r], branch[r])
            resp == StoreDeleteContents(path[r], data)
            status == Seen(net, resp.status)
        IN  /\ calls' = Logged(r, "delete_contents", status)
            /\ defaults' = [defaults EXCEPT ![r] = Append(@, default_branch)]
            /\ requests' = Sent(r, Request("delete_contents", data.branch,
                                           data.sha, FALSE, None))
            /\ trees' = IF Delivered(net) THEN resp.trees ELSE trees
            /\ commits' = IF Delivered(net) THEN resp.commits ELSE commits
            /\ refs' = IF Delivered(net) THEN resp.refs ELSE refs
            /\ applied' = IF Delivered(net) /\ resp.commit_sha # 0
                          THEN [applied EXCEPT ![r] = resp.commit_sha]
                          ELSE applied
            /\ IF Raised(status)
               THEN Fail(r, status)
               ELSE /\ pc' = [pc EXCEPT ![r] = "done"]
                    /\ result' = [result EXCEPT ![r] =
                            FileSuccessResult(resp.commit_sha, "excluido")]
    /\ UNCHANGED <<default_branch, externals, locals, operation, path,
                   conteudo, sha, arquivo_sha, content, supplied>>

\* Another writer of the repository commits a new value of one path.
ExternalWrite ==
    /\ externals < MaxExternal
    /\ \E b \in Branches, p \in Paths, v \in ExtValues :
        /\ refs[b] # 0
        /\ HeadTree(b)[p] # v
        /\ LET w == StoreCommitPath(b, p, v, "200")
           IN  /\ trees' = w.trees
               /\ commits' = w.commits
               /\ refs' = w.refs
    /\ externals' = externals + 1
    /\ UNCHANGED <<default_branch, pc, locals, result, calls, applied,
                   filevars, requests>>

\* The repository's owner creates a missing branch at the head of the
\* default branch.
CreateBranch ==
    /\ \E b \in Branches :
        /\ refs[b] = 0
        /\ refs' = [refs EXCEPT ![b] = refs[default_branch]]
    /\ UNCHANGED <<commits, trees, default_branch, externals, pc, locals,
                   result, calls, applied, filevars, requests>>

\* The repository's owner makes another existing branch the default one.
ChangeDefault ==
    /\ \E b \in Branches :
        /\ refs[b] # 0
        /\ b # default_branch
        /\ default_branch' = b
    /\ UNCHANGED <<commits, trees, refs, externals, pc, locals, result, calls,
                   applied, filevars, requests>>

\* The remote calls of criar_commit_multiplo.
Step(r) ==
    \/ GetRepo(r)
    \/ GetRef(r)
    \/ GetCommit(r)
    \/ PostTree(r)
    \/ PostCommit(r)
    \/ PatchRef(r)

\* Racing runs on one branch.
Next ==
    \E r \in Runs :
        \/ \E alts \in RaceAlteracoes, b \in RaceBranches : HandleMcp(r, alts, b)
        \/ Step(r)

Spec == Init /\ [][Next]_vars

\* One run over every request, beside another writer.
NextInputs ==
    \/ \E alts \in Alteracoes, b \in BranchArgs : HandleMcp(Solo, alts, b)
    \/ Step(Solo)
    \/ ExternalPush

SpecInputs == Init /\ [][NextInputs]_vars

\* The blob sha a caller of atualizar_arquivo supplies: none, the one of the
\* content the file starts with, or another one.
ShaArgs == {None} \cup {BlobSha(v) : v \in Contents}

\* The remote calls of atualizar_arquivo and of excluir_arquivo.
FileStep(r) ==
    \/ GetDefault(r)
    \/ GetContents(r)
    \/ PutContents(r)
    \/ DeleteContents(r)

\* One run of any operation, beside another writer: every request of the
\* single-file operations, the requests of racing runs for the commit.
NextOps ==
    \/ \E alts \in RaceAlteracoes, b \in BranchArgs : HandleMcp(Solo, alts, b)
    \/ \E p \in Paths, text \in Conteudos, b \in BranchArgs, s \in ShaArgs :
           HandleMcpAtualizar(Solo, p, text, b, s)
    \/ \E p \in Paths, b \in BranchArgs : ExcluirArquivo(Solo, p, b)
    \/ Step(Solo)
    \/ FileStep(Solo)
    \/ ExternalWrite

SpecOps == Init /\ [][NextOps]_vars

\* Every call the run issues has an outcome (an answer, or an exception of
\* the requests library), after which the code runs on to its next call or
\* to its return.
SpecOpsFair == SpecOps /\ WF_vars(Step(Solo) \/ FileStep(Solo))

\* Requests of the commit whose file change carries the optional 'sha': the
\* blob sha the caller expects the file to have.
GuardedAlteracoes ==
    {<<[path |-> p, conteudo |-> "2", sha |-> s]>> :
        p \in Paths, s \in ShaArgs \ {None}}

\* One commit run whose change carries an expected blob sha, beside another
\* writer.
NextGuarded ==
    \/ \E alts \in GuardedAlteracoes, b \in RaceBranches :
           HandleMcp(Solo, alts, b)
    \/ Step(Solo)
    \/ ExternalWrite

SpecGuarded == Init /\ [][NextGuarded]_vars

\* Every earlier run has returned.
InTurn(r) == \A q \in Runs : q < r => pc[q] \in {"done", "raised"}

\* Writes of every text and reads of the file written, served one after
\* another, beside another writer.
NextRoundTrip ==
    \/ \E r \in Runs :
           /\ InTurn(r)
           /\ \/ \E text \in Texts :
                     HandleMcpAtualizar(r, "a.txt", text, "main", None)
              \/ \E b \in RaceBranches : HandleMcpObter(r, "a.txt", b)
    \/ \E r \in Runs : GetDefault(r) \/ GetContents(r) \/ PutContents(r)
    \/ ExternalPush

SpecRoundTrip == Init /\ [][NextRoundTrip]_vars

\* One update without a blob sha, of every path, text and branch, after the
\* other writer has finished: nobody else writes while the run is under way.
NextAlone ==
    \/ pc[Solo] = "idle" /\ ExternalWrite
    \/ \E p \in Paths, text \in Conteudos, b \in BranchArgs :
           HandleMcpAtualizar(Solo, p, text, b, None)
    \/ GetDefault(Solo)
    \/ GetContents(Solo)
    \/ PutContents(Solo)

SpecAlone == Init /\ [][NextAlone]_vars

\* Operations of every kind served one after another by one process, each
\* after the one before it has returned, with success or with failure; the
\* branch is omitted, and nobody else writes.
NextSeries ==
    \/ \E r \in Runs :
           /\ InTurn(r)
           /\ \/ \E alts \in RaceAlteracoes : HandleMcp(r, alts, None)
              \/ \E text \in {"2", ""}, s \in ShaArgs :
                     HandleMcpAtualizar(r, "a.txt", text, None, s)
              \/ ExcluirArquivo(r, "a.txt", None)
    \/ \E r \in Runs : Step(r) \/ FileStep(r)

SpecSeries == Init /\ [][NextSeries]_vars

\* Requests without a branch argument, served one after another, while the
\* repository's owner creates branches and changes the default one.
NextDefault ==
    \/ \E r \in Runs :
           /\ InTurn(r)
           /\ \/ HandleMcp(r, <<[path |-> "b.txt", conteudo |-> "1"]>>, None)
              \/ HandleMcpAtualizar(r, "a.txt", "2", None, None)
              \/ ExcluirArquivo(r, "a.txt", None)
    \/ \E r \in Runs : Step(r) \/ FileStep(r)
    \/ CreateBranch
    \/ ChangeDefault

SpecDefault == Init /\ [][NextDefault]_vars

(* ------------------------------ properties ----------------------------- *)

Finished(r) == pc[r] = "done"
Succeeded(r) == Finished(r) /\ result[r].sucesso
Failed(r) == Finished(r) /\ ~result[r].sucesso

RequestedPaths(alts) == {alts[i].path : i \in 1..Len(alts)}
DistinctPaths(alts) ==
    \A i, j \in 1..Len(alts) : alts[i].path = alts[j].path => i = j
\* The tree of a commit, as a map from path to content.
TreeOf(c) == trees[commits[c].tree]
\* The operations of the calls a run issued, in order.
Ops(r) == [i \in 1..Len(calls[r]) |-> calls[r][i].op]
IsPrefix(s, t) == Len(s) <= Len(t) /\ \A i \in 1..Len(s) : s[i] = t[i]
CoreOps == <<"get_ref", "get_commit", "post_tree", "post_commit", "patch_ref">>
CreatedBy(r) == {c \in 1..Len(commits) : commits[c].by = r}

\* C1: when a run with a non-empty list of changes with distinct paths returns
\* success, the tree of its new commit maps every requested path to the
\* requested content and every other path to what the base tree held.
C1_TreeReflectsChanges ==
    \A r \in Runs :
        (Succeeded(r) /\ alteracoes[r] # <<>> /\ DistinctPaths(alteracoes[r])) =>
            /\ \A i \in 1..Len(alteracoes[r]) :
                   TreeOf(result[r].sha)[alteracoes[r][i].path]
                       = alteracoes[r][i].conteudo
            /\ \A p \in Paths \ RequestedPaths(alteracoes[r]) :
                   TreeOf(result[r].sha)[p] = trees[tree_sha[r]][p]

\* C1 witness: a run succeeded with one change on top of a base tree that
\* holds another file.
C1_Witness ==
    \E r \in Runs :
        /\ Succeeded(r)
        /\ DistinctPaths(alteracoes[r])
        /\ Len(alteracoes[r]) = 1
        /\ \E p \in Paths \ RequestedPaths(alteracoes[r]) :
               trees[tree_sha[r]][p] # NoFile

\* C2: no run ever moves a branch head to a commit holding only part of its
\* changes: every move of a head is one run's ref update, and the new head's
\* tree is the old head's tree with every requested path set to the requested
\* content, all in that one step.
C2_HeadMovesAllOrNothing ==
    [][\A b \in Branches :
          refs'[b] # refs[b] =>
              \E r \in Runs :
                  /\ pc[r] = "patch_ref" /\ pc'[r] = "done" /\ branch[r] = b
                  /\ \A i \in 1..Len(alteracoes[r]) :
                        (\A j \in (i + 1)..Len(alteracoes[r]) :
                             alteracoes[r][j].path # alteracoes[r][i].path)
                        => TreeOf(refs[b])'[alteracoes[r][i].path]
                               = alteracoes[r][i].conteudo
                  /\ \A p \in Paths \ RequestedPaths(alteracoes[r]) :
                        TreeOf(refs[b])'[p] = TreeOf(refs[b])[p]]_vars

\* C2 witness: the store applied the ref update of a run changing two files.
C2_Witness ==
    \E r \in Runs :
        /\ applied[r] # 0
        /\ Len(alteracoes[r]) = 2
        /\ refs[branch[r]] = applied[r]

\* C3: when the head moved between a run's read of the ref and its ref
\* update, the update leaves every ref as the other writer left it and the run
\* ends in failure, with the store's rejection (422) whenever the call is
\* answered.
C3_StaleHeadConflicts ==
    [][\A r \in Runs :
          (pc[r] = "patch_ref" /\ pc'[r] # "patch_ref"
              /\ refs[branch[r]] # ref_sha[r]) =>
              /\ refs' = refs
              /\ applied'[r] = 0
              /\ Failed(r)'
              /\ result'[r].mensagem \in {"422", "neterr"}
              /\ calls'[r][Len(calls'[r])].status = result'[r].mensagem]_vars

\* C3 witness: a run was rejected with 422 and the head is the commit another
\* writer pushed after the run read the ref.
C3_Witness ==
    \E r \in Runs :
        /\ Failed(r)
        /\ result[r].mensagem = "422"
        /\ new_commit_sha[r] # 0
        /\ refs[branch[r]] # ref_sha[r]
        /\ refs[branch[r]] # new_commit_sha[r]
        /\ commits[refs[branch[r]]].by = 0
        /\ commits[refs[branch[r]]].parents = <<ref_sha[r]>>

\* C4: among the runs that read the same head of the same branch, the store
\* applies the ref update of at most one, and every other one that has finished
\* has failed.
C4_OneWinnerPerHead ==
    \A r1, r2 \in Runs :
        (r1 # r2 /\ ref_sha[r1] # 0 /\ ref_sha[r1] = ref_sha[r2]
            /\ branch[r1] = branch[r2] /\ applied[r1] # 0) =>
            /\ applied[r2] = 0
            /\ Finished(r2) => Failed(r2)

\* C4 witness: two runs read the same head, one won and the other was
\* rejected.
C4_Witness ==
    \E r1, r2 \in Runs :
        /\ r1 # r2
        /\ ref_sha[r1] # 0 /\ ref_sha[r1] = ref_sha[r2]
        /\ applied[r1] # 0 /\ Succeeded(r1)
        /\ Failed(r2) /\ result[r2].mensagem = "422"

\* C5: every commit a run created has exactly one parent, the head the run
\* read from the branch ref; a run that succeeded left the branch at such a
\* commit.
C5_SoleParentIsHeadRead ==
    \A r \in Runs :
        /\ \A c \in CreatedBy(r) : commits[c].parents = <<ref_sha[r]>>
        /\ Succeeded(r) =>
              /\ applied[r] \in CreatedBy(r)
              /\ commits[applied[r]].parents = <<ref_sha[r]>>

\* C5 witness: a run succeeded after another commit had been put on the
\* branch, so the head it read is not the initial commit.
C5_Witness ==
    \E r \in Runs :
        /\ Succeeded(r)
        /\ CreatedBy(r) # {}
        /\ ref_sha[r] > 1

\* C6 (as claimed): a request with two changes of the same path is rejected
\* as invalid and issues no remote call.
C6_DuplicatePathsRejected ==
    \A r \in Runs :
        (pc[r] # "idle" /\ ~DistinctPaths(alteracoes[r])) =>
            /\ calls[r] = <<>>
            /\ Finished(r) => result[r] = InvalidParams

\* C7: a request with an empty list of changes is rejected as invalid before
\* any remote call; it creates no commit and moves no branch.
C7_EmptyListRejected ==
    \A r \in Runs :
        (pc[r] # "idle" /\ alteracoes[r] = <<>>) =>
            /\ Finished(r)
            /\ result[r] = InvalidParams
            /\ calls[r] = <<>>
            /\ CreatedBy(r) = {}
            /\ applied[r] = 0

\* C7 witness: a request with an empty list was answered.
C7_Witness ==
    \E r \in Runs :
        /\ Finished(r)
        /\ alteracoes[r] = <<>>
        /\ result[r].rpc = "error"

\* C8: the calls of one run are issued in the order read ref, read head
\* commit, create tree, create commit, update ref (after the query for the
\* default branch when the branch is omitted); a call is issued only after
\* every earlier one returned without error, and a run that succeeded issued
\* each of them exactly once.
C8_CallsInOrder ==
    \A r \in Runs :
        LET ops == Ops(r)
            core == SelectSeq(ops, LAMBDA o : o # "get_repo")
        IN  /\ IsPrefix(core, CoreOps)
            /\ \A i \in 1..Len(ops) : ops[i] = "get_repo" => i = 1
            /\ \A i \in 1..(Len(calls[r]) - 1) :
                   calls[r][i].status \in {"200", "201"}
            /\ Succeeded(r) =>
                   /\ core = CoreOps
                   /\ calls[r][Len(calls[r])].status = "200"

\* C8 witness: a run succeeded after all its calls, and the default branch
\* was queried first.
C8_Witness ==
    \E r \in Runs :
        /\ Succeeded(r)
        /\ Len(calls[r]) = Len(CoreOps) + 1

\* C9 (as claimed): a run that returned a failure did not move the branch
\* head.
C9_FailureLeavesHead ==
    \A r \in Runs : Failed(r) => applied[r] = 0

\* C10: a run reports success only after the store accepted its ref update,
\* and the branch head was the reported commit when the update was applied.
C10_SuccessAfterRefUpdate ==
    \A r \in Runs :
        Succeeded(r) =>
            /\ applied[r] # 0
            /\ applied[r] = result[r].sha
            /\ calls[r][Len(calls[r])] = [op |-> "patch_ref", status |-> "200"]

\* C10 witness: a run reported success and another one then moved the head
\* further.
C10_Witness ==
    \E r \in Runs :
        /\ Succeeded(r)
        /\ refs[branch[r]] # result[r].sha

(* ----------------------- single-file operations ------------------------ *)

\* The run has issued the call.
Issued(r, call) == \E i \in 1..Len(calls[r]) : calls[r][i].op = call
\* How many times the run has issued the call.
TimesIssued(r, call) == Cardinality({i \in 1..Len(calls[r]) : calls[r][i].op = call})
\* The run is an update whose blob sha came from the caller.
SuppliedSha(r) == operation[r] = "update" /\ supplied[r] # None
\* The run's branch exists and holds a regular file at the run's path.
FileExists(r) ==
    /\ branch[r] \in Branches
    /\ refs[branch[r]] # 0
    /\ HeadTree(branch[r])[path[r]] \in Bytes
\* The store holds what it held: no object was added and no head moved.
StoreUntouched == UNCHANGED <<commits, trees, refs>>
\* The status of the last call the run issued.
LastStatus(r) == calls[r][Len(calls[r])].status
\* The run sends its write or its delete in this step.
Writes(r) == pc[r] = "put_contents" /\ calls'[r] # calls[r]
Deletes(r) == pc[r] = "delete_contents" /\ calls'[r] # calls[r]

\* C11 (as stated): an update that carries the file's current blob sha
\* succeeds and leaves the file with a blob sha other than the one it had.
C11_FingerprintAlwaysChanges ==
    \A r \in Runs :
        (Succeeded(r) /\ SuppliedSha(r)) => arquivo_sha[r] # supplied[r]

\* C11 (amended): an update sent with a caller's blob sha that is not the one
\* of the file on the branch fails with the store's 409 and leaves every
\* object and head as it was; sent with the file's current blob sha it
\* succeeds once the store answers, the file then holds the new content, and
\* its blob sha differs from the old one exactly when the content does.
C11_FingerprintGating ==
    [][\A r \in Runs :
          (Writes(r) /\ SuppliedSha(r) /\ FileExists(r)) =>
              IF supplied[r] # BlobSha(HeadTree(branch[r])[path[r]])
              THEN /\ StoreUntouched
                   /\ pc'[r] = "done" /\ ~result'[r].sucesso
                   /\ result'[r].mensagem \in {"409", "neterr"}
              ELSE /\ LastStatus(r)' # "neterr" => result'[r].sucesso
                   /\ result'[r].sucesso =>
                          /\ HeadTree(branch[r])'[path[r]] = conteudo[r]
                          /\ arquivo_sha'[r] = BlobSha(conteudo[r])
                          /\ (arquivo_sha'[r] # supplied[r]) <=>
                                 (conteudo[r] # HeadTree(branch[r])[path[r]])
      ]_vars

\* C11 witness: an update that carried a blob sha other than the one of the
\* file on the branch was refused with 409 and the store applied nothing.
C11_Witness ==
    \E r \in Runs :
        /\ SuppliedSha(r) /\ Finished(r) /\ FileExists(r)
        /\ supplied[r] # BlobSha(HeadTree(branch[r])[path[r]])
        /\ result[r].mensagem = "409"
        /\ applied[r] = 0

\* The blob sha the run holds is one its own read of the file gave it.
GuardRead(r) ==
    /\ operation[r] \in {"update", "delete"}
    /\ supplied[r] = None
    /\ sha[r] # None
\* The path no longer holds the blob the run read.
ChangedSinceRead(r) ==
    \/ ~FileExists(r)
    \/ BlobSha(HeadTree(branch[r])[path[r]]) # sha[r]

\* C12: when the file was changed after the run's own read of its blob sha,
\* the update or delete the run then sends fails and the store keeps every
\* object and head as the other writer left them; when the path still holds a
\* file, the failure is the store's 409.
C12_ConcurrentWriteKept ==
    [][\A r \in Runs :
          ((Writes(r) \/ Deletes(r)) /\ GuardRead(r) /\ ChangedSinceRead(r)) =>
              /\ StoreUntouched
              /\ pc'[r] = "done" /\ ~result'[r].sucesso
              /\ FileExists(r) => result'[r].mensagem \in {"409", "neterr"}
      ]_vars

\* C12 witness: a run read the file, another writer replaced its content,
\* and the run's write was refused with 409, the other writer's content
\* still in place.
C12_Witness ==
    \E r \in Runs :
        /\ Finished(r) /\ GuardRead(r)
        /\ result[r].mensagem = "409"
        /\ FileExists(r)
        /\ HeadTree(branch[r])[path[r]] \in {ExtContent, Bin}
        /\ externals > 0

\* The run sends its write without a blob sha in this step.
SendsCreate(r) == Writes(r) /\ operation[r] = "update" /\ sha[r] = None

\* C13: a write sent without a blob sha while the branch holds a file at the
\* path fails, with the store's 422 when the call is answered, and the store
\* keeps every object and head; and whenever a write replaces an existing
\* file, it carried the blob sha that file had.
C13_CreateNeverOverwrites ==
    [][\A r \in Runs :
          /\ (SendsCreate(r) /\ FileExists(r)) =>
                 /\ StoreUntouched
                 /\ pc'[r] = "done" /\ ~result'[r].sucesso
                 /\ result'[r].mensagem \in {"422", "neterr"}
          /\ (Writes(r) /\ FileExists(r) /\ ~StoreUntouched) =>
                 sha[r] = BlobSha(HeadTree(branch[r])[path[r]])
      ]_vars

\* C13 witness: an update whose caller supplied no blob sha, and whose read
\* gave none, sent its write while the file was there and was refused.
C13_Witness ==
    \E r \in Runs :
        /\ Finished(r) /\ operation[r] = "update"
        /\ supplied[r] = None /\ sha[r] = None
        /\ Issued(r, "put_contents")
        /\ result[r].mensagem = "422"
        /\ FileExists(r)

\* The messages of the failure results of obter_conteudo_arquivo.
ReadMessages ==
    {"404", "neterr", "AttributeError", "not_a_file", "UnicodeDecodeError"}
\* What the run sent last.
LastRequest(r) == requests[r][Len(requests[r])]
\* The last thing a delete did is a read, of the default branch or of the
\* file, that gave it nothing.
ReadGaveNothing(r) ==
    /\ operation[r] = "delete"
    /\ requests[r] # <<>>
    /\ LastRequest(r).op \in {"get_repo", "get_contents"}
    /\ LastRequest(r).got = None

\* C14 (as stated): a delete whose preliminary read does not succeed fails
\* with NotFound.
C14_ReadFailureIsNotFound ==
    \A r \in Runs : ReadGaveNothing(r) => result[r].mensagem = "404"

\* C14 (amended): a delete whose preliminary read does not succeed ends at
\* once, without a delete call, returning the failure result of the read: the
\* store's 404 when the file or branch is absent, the transport error when
\* the read got no answer; and every delete call sent carries the blob sha
\* the read just before it returned.
C14_DeleteNeedsRead ==
    \A r \in Runs :
        /\ ReadGaveNothing(r) =>
               /\ Failed(r)
               /\ ~Issued(r, "delete_contents")
               /\ result[r].mensagem \in ReadMessages
               /\ LastStatus(r) \in {"404", "neterr"} =>
                      result[r].mensagem = LastStatus(r)
        /\ \A i \in 1..Len(requests[r]) :
               requests[r][i].op = "delete_contents" =>
                   /\ i > 1
                   /\ requests[r][i - 1].op = "get_contents"
                   /\ requests[r][i - 1].got # None
                   /\ requests[r][i].sha = requests[r][i - 1].got

\* C14 witness: a delete of a path the branch does not hold ended with the
\* read's 404 and sent no delete call.
C14_Witness ==
    \E r \in Runs :
        /\ ReadGaveNothing(r) /\ Failed(r)
        /\ LastRequest(r).op = "get_contents"
        /\ result[r].mensagem = "404"
        /\ ~Issued(r, "delete_contents")

\* The calls that name the branch they act on.
NamesBranch(call) ==
    call \in {"get_ref", "patch_ref", "get_contents", "put_contents",
              "delete_contents"}

\* C15: a run whose request names no branch first asks the store for the
\* default branch, and every later call of that run that names a branch names
\* the one the store returned to that very run, whatever earlier runs were
\* told.  (Every run of SpecDefault omits the branch.)
C15_DefaultResolvedPerCall ==
    \A r \in Runs :
        requests[r] # <<>> =>
            /\ requests[r][1].op = "get_repo"
            /\ \A i \in 2..Len(requests[r]) :
                   /\ NamesBranch(requests[r][i].op)
                   /\ requests[r][i].branch = requests[r][1].got

\* C15 witness: the default branch changed between two runs, and the second
\* wrote to the new default while the first had written to the old one.
C15_Witness ==
    \E r, q \in Runs :
        /\ r < q
        /\ Succeeded(r) /\ Succeeded(q)
        /\ requests[r][1].got # requests[q][1].got
        /\ LastRequest(r).branch = requests[r][1].got
        /\ LastRequest(q).branch = requests[q][1].got
        /\ refs[requests[q][1].got] = applied[q]

\* The failure results carry a message and nothing else; this is the kind a
\* caller can read from the message, the text of the exception.
Kind(mensagem) ==
    CASE mensagem = "neterr" -> "RemoteFailure"
      [] mensagem = "404" -> "NotFound"
      [] mensagem \in {"409", "422"} -> "Conflict"
      [] mensagem = "-32602" -> "ValidationError"
      [] OTHER -> "Unclassified"
\* A call of the run got no answer.
MetTransportFailure(r) ==
    \E i \in 1..Len(calls[r]) : calls[r][i].status = "neterr"

\* C16 (as stated): every failure result names the kind of its cause; a run
\* that met a transport failure and failed reports RemoteFailure.
C16_FailureNamesCause ==
    \A r \in Runs :
        Failed(r) =>
            /\ Kind(result[r].mensagem) # "Unclassified"
            /\ MetTransportFailure(r) =>
                   Kind(result[r].mensagem) = "RemoteFailure"

\* A result envelope: a boolean success flag and a message.
Envelope(res) ==
    /\ res.rpc \in {"result", "error"}
    /\ res.sucesso \in BOOLEAN
    /\ res.mensagem # ""

\* C17: no run ever leaves an operation through an exception, every run that
\* has returned holds a result envelope, and every run that has started
\* returns, whatever the outcome of each of its calls: an answer, an error
\* status, no answer, or an answer of an unexpected shape.
C17_AlwaysReturnsEnvelope ==
    /\ [](\A r \in Runs :
             /\ pc[r] # "raised"
             /\ Finished(r) => Envelope(result[r]))
    /\ \A r \in Runs : (pc[r] # "idle") ~> Finished(r)

\* C17 witness: a delete whose read was answered with a JSON list, which the
\* code cannot take apart, returned a failure envelope.
C17_Witness ==
    \E r \in Runs :
        /\ Finished(r) /\ Envelope(result[r])
        /\ operation[r] = "delete"
        /\ result[r].mensagem = "AttributeError"
        /\ LastStatus(r) = "200"

\* The calls that write to the store.
MutatingCalls ==
    {"post_tree", "post_commit", "patch_ref", "put_contents", "delete_contents"}

\* C18 (as stated): a run issues each mutating call at most once, and issues
\* no call after one that met a conflict or got no answer.
C18_NoCallAfterFailure ==
    \A r \in Runs :
        /\ \A call \in MutatingCalls : TimesIssued(r, call) <= 1
        /\ \A i \in 1..Len(calls[r]) :
               Kind(calls[r][i].status) \in {"Conflict", "RemoteFailure"} =>
                   i = Len(calls[r])

\* C19: every ref update a run sends carries force = false, and every move of
\* a branch head goes to a descendant of the head it replaces.
C19_NeverForced ==
    [][\A r \in Runs :
          (pc[r] = "patch_ref" /\ pc'[r] # "patch_ref") =>
              /\ LastRequest(r)'.op = "patch_ref"
              /\ LastRequest(r)'.force = FALSE
              /\ \A b \in Branches :
                     refs'[b] # refs[b] => IsAncestor(refs[b], refs'[b])
      ]_vars

\* C19 witness: of two racing runs one moved the head, and the other's ref
\* update, sent unforced, was refused as no fast-forward.
C19_Witness ==
    \E r, q \in Runs :
        /\ r # q
        /\ Succeeded(r) /\ Failed(q)
        /\ LastRequest(q).op = "patch_ref"
        /\ LastRequest(q).force = FALSE
        /\ LastStatus(q) = "422"
        /\ applied[q] = 0

\* C20: an update whose caller supplied a blob sha never reads the file and
\* sends that very sha with its write; an update whose caller supplied none
\* reads the file exactly once, sends its write right after that read with no
\* call in between, and sends the blob sha the read returned (none when the
\* read returned none).
C20_GuardReadsOnceOrNever ==
    \A r \in Runs :
        operation[r] = "update" =>
            /\ supplied[r] # None => ~Issued(r, "get_contents")
            /\ \A i \in 1..Len(requests[r]) :
                   requests[r][i].op = "put_contents" =>
                       IF supplied[r] # None
                       THEN requests[r][i].sha = supplied[r]
                       ELSE /\ TimesIssued(r, "get_contents") = 1
                            /\ i > 1
                            /\ requests[r][i - 1].op = "get_contents"
                            /\ requests[r][i].sha = requests[r][i - 1].got

\* C20 witness: an update without a caller's blob sha read the file, sent
\* the blob sha it read and replaced the file.
C20_Witness ==
    \E r \in Runs :
        /\ Succeeded(r) /\ operation[r] = "update" /\ supplied[r] = None
        /\ result[r].mensagem = "atualizado"
        /\ TimesIssued(r, "get_contents") = 1
        /\ LastRequest(r).op = "put_contents"
        /\ LastRequest(r).sha # None
        /\ LastRequest(r).sha = requests[r][Len(requests[r]) - 1].got

(* ------------------------- later commit claims ------------------------- *)

\* The run issues a call, or is rejected, in this step.
Moves(r) == pc'[r] # pc[r]

\* C21: a commit run whose request names a branch goes straight to the read
\* of that branch's ref, never changes the name and names it in every call;
\* when the branch does not exist the ref read ends the run with a failure
\* (the store's 404 when the call is answered) before any tree, commit or ref
\* update is sent, and the store is left as it was, the branch still absent.
C21_BranchUsedVerbatim ==
    [][\A r \in Runs :
          /\ (pc[r] = "idle" /\ Moves(r) /\ operation'[r] = "commit"
                 /\ branch'[r] # None) => pc'[r] \in {"get_ref", "done"}
          /\ (operation[r] = "commit" /\ branch[r] # None) =>
                 branch'[r] = branch[r]
          /\ (pc[r] = "get_ref" /\ Moves(r)) =>
                 /\ LastRequest(r)'.branch = branch[r]
                 /\ refs[branch[r]] = 0 =>
                        /\ pc'[r] = "done" /\ ~result'[r].sucesso
                        /\ result'[r].mensagem \in {"404", "neterr"}
                        /\ StoreUntouched
      ]_vars

\* C21 witness: a commit run on a branch that does not exist ended with the
\* 404 of its ref read, its only call, and the branch is still absent.
C21_Witness ==
    \E r \in Runs :
        /\ Failed(r) /\ operation[r] = "commit"
        /\ Ops(r) = <<"get_ref">>
        /\ result[r].mensagem = "404"
        /\ refs[branch[r]] = 0

\* C22 (as stated): the store applies a run's commit to the branch only if
\* every file change that carries an expected blob sha found, in the base
\* tree, a file with that blob sha.
C22_ExpectedFingerprintHonoured ==
    \A r \in Runs :
        (operation[r] = "commit" /\ applied[r] # 0) =>
            \A i \in 1..Len(alteracoes[r]) :
                alteracoes[r][i].sha
                    = BlobSha(trees[tree_sha[r]][alteracoes[r][i].path])

\* The run reads the file in this step and returns what it read.
Reads(r) ==
    pc[r] = "get_contents" /\ operation[r] = "read" /\ calls'[r] # calls[r]
\* The head of the branch the run reads is the commit the store made for the
\* write w of the same path: nothing was written in between.
ReadsBack(r, w) ==
    /\ operation[w] = "update" /\ Succeeded(w)
    /\ path[w] = path[r] /\ branch[w] = branch[r]
    /\ refs[branch[r]] = applied[w]

CallFailed(call) == call.status \notin {"200", "201"}

\* C24: in a commit run a call that got an error status or no answer is the
\* run's last call, and the run has returned a failure carrying that status.
C24_FailedCallEndsRun ==
    \A r \in Runs :
        operation[r] = "commit" =>
            \A i \in 1..Len(calls[r]) :
                CallFailed(calls[r][i]) =>
                    /\ i = Len(calls[r])
                    /\ Failed(r)
                    /\ result[r].mensagem = calls[r][i].status

\* C24 witness: the creation of the tree got no answer, and the run returned
\* a failure without creating a commit or updating the ref.
C24_Witness ==
    \E r \in Runs :
        /\ Failed(r) /\ operation[r] = "commit"
        /\ calls[r][Len(calls[r])].op = "post_tree"
        /\ CallFailed(calls[r][Len(calls[r])])
        /\ ~Issued(r, "post_commit") /\ ~Issued(r, "patch_ref")



\* The run is past the commit read: the new tree has been asked for.
BuildsTree(r) == operation[r] = "commit" /\ Issued(r, "post_tree")

\* C25: a run with N file changes asks for one new tree and for at most one
\* new commit, whatever N is; the tree it asks for is based on the base tree
\* the run read, and lists exactly N regular-file entries, the i-th holding
\* the path and the content of the i-th change.
C25_OneTreeOfAllChanges ==
    \A r \in Runs :
        /\ TimesIssued(r, "post_tree") <= 1
        /\ TimesIssued(r, "post_commit") <= 1
        /\ pc[r] \in {"post_commit", "patch_ref"} => BuildsTree(r)
        /\ BuildsTree(r) =>
            /\ tree_data[r].base_tree = tree_sha[r]
            /\ Len(tree_data[r].tree) = Len(alteracoes[r])
            /\ \A i \in 1..Len(alteracoes[r]) :
                /\ tree_data[r].tree[i].path = alteracoes[r][i].path
                /\ tree_data[r].tree[i].content = alteracoes[r][i].conteudo
                /\ tree_data[r].tree[i].mode = "100644"
                /\ tree_data[r].tree[i].type = "blob"

\* A run of two changes has created its tree and its commit.
C25_Witness ==
    \E r \in Runs :
        /\ BuildsTree(r)
        /\ Len(alteracoes[r]) = MaxChanges
        /\ alteracoes[r][1].path # alteracoes[r][MaxChanges].path
        /\ TimesIssued(r, "post_commit") = 1
        /\ Succeeded(r)

\* The commit a commit run reported as its success.
Reported(r) == result[r].sha

\* The commit runs that have returned success.
Winners == {r \in Runs : operation[r] = "commit" /\ Succeeded(r)}

\* C26: whatever the interleaving of the runs on one branch, every commit a
\* run reported as its success is the branch head or an ancestor of it, and
\* of two reported commits one is an ancestor of the other: the history is
\* one chain and a later run drops no reported commit from it.
C26_ReportedCommitsStay ==
    /\ \A r \in Winners :
           /\ Reported(r) \in CreatedBy(r)
           /\ IsAncestor(Reported(r), refs[default_branch])
    /\ \A r, q \in Winners :
           IsAncestor(Reported(r), Reported(q)) \/ IsAncestor(Reported(q), Reported(r))

\* C26 witness: two runs have both succeeded, and the commit of one is no
\* longer the head: the other run's commit was put on top of it.
C26_Witness ==
    \E r, q \in Winners :
        /\ r # q
        /\ Reported(q) = refs[default_branch]
        /\ Reported(r) # Reported(q)
        /\ IsAncestor(Reported(r), Reported(q))

\* C27: the base tree a run gives to the tree creation is the tree of the
\* commit it read, and that commit is the one parent of the commit the run
\* creates, also when the branch head had moved between the run's read of the
\* ref and its read of the commit.
C27_ParentAndBaseTreeOfOneCommit ==
    \A r \in Runs :
        /\ BuildsTree(r) =>
               /\ parent_sha[r] = ref_sha[r]
               /\ tree_data[r].base_tree = commits[parent_sha[r]].tree
        /\ \A c \in CreatedBy(r) :
               /\ commits[c].parents = <<parent_sha[r]>>
               /\ tree_data[r].base_tree = commits[commits[c].parents[1]].tree

\* C27 witness: the head had moved to a commit of another tree when the run
\* read the commit, and the run went on to create its tree and its commit.
C27_Witness ==
    \E r \in Runs :
        /\ moved[r]
        /\ CreatedBy(r) # {}
        /\ commits[refs[branch[r]]].tree # tree_sha[r]
        /\ commits[refs[branch[r]]].parents = <<parent_sha[r]>>

\* No call of any run went without an answer.
NoTransportFailure == \A q \in Runs : ~MetTransportFailure(q)

\* The run sends the first ref update any run has sent.
FirstRefUpdate(r) ==
    /\ pc[r] = "patch_ref"
    /\ pc'[r] # "patch_ref"
    /\ \A q \in Runs : ~Issued(q, "patch_ref")

\* C28: when no call goes without an answer and the runs are the only
\* writers, the first run to send its ref update succeeds and the head is its
\* commit; so when every run has returned, at least one has succeeded.
C28_FirstRefUpdateSucceeds ==
    [][/\ \A r \in Runs :
              (FirstRefUpdate(r) /\ NoTransportFailure') =>
                  /\ Succeeded(r)'
                  /\ refs'[branch[r]] = new_commit_sha[r]
       /\ ((\A q \in Runs : Finished(q)') /\ NoTransportFailure') =>
              \E q \in Runs : Succeeded(q)'
      ]_vars

\* C28 witness: two runs read the same head and every call was answered; the
\* one that sent its ref update first succeeded, the other was refused.
C28_Witness ==
    \E r, q \in Runs :
        /\ NoTransportFailure
        /\ ref_sha[r] = ref_sha[q]
        /\ Succeeded(r)
        /\ refs[branch[r]] = new_commit_sha[r]
        /\ Failed(q)
        /\ calls[q] # <<>>
        /\ calls[q][Len(calls[q])] = [op |-> "patch_ref", status |-> "422"]

\* The run is an update without a blob sha of the caller, with a content the
\* dispatcher accepts, on a branch that exists, and every call it issued was
\* answered.
PlainUpdate(r) ==
    /\ operation[r] = "update"
    /\ supplied[r] = None
    /\ ValidFileArgs(conteudo[r])
    /\ branch[r] \in Branches
    /\ refs[branch[r]] # 0
    /\ ~MetTransportFailure(r)

\* C29 (as stated): an update without a blob sha, with nobody else writing
\* while it runs, succeeds whether or not the path holds a file, and the path
\* holds the requested content afterwards.
C29_UnconditionalWriteSucceeds ==
    \A r \in Runs :
        (PlainUpdate(r) /\ Finished(r)) =>
            /\ Succeeded(r)
            /\ HeadTree(branch[r])[path[r]] = Utf8Encode(conteudo[r])

\* The last call the run issued, with the status it got.
LastCall(r) == calls[r][Len(calls[r])]

\* The run is an update that reads the file for its blob sha in this step.
ReadsSha(r) ==
    pc[r] = "get_contents" /\ operation[r] = "update" /\ calls'[r] # calls[r]

\* What the path of the run holds cannot be read as a text file: there is
\* no such branch or no such file, or the path holds a directory, a link or
\* bytes that are not text.
NothingToRead(r) ==
    \/ branch[r] \notin Branches
    \/ refs[branch[r]] = 0
    \/ HeadTree(branch[r])[path[r]] \in {NoFile, Dir, Link, Bin}

\* C30: in an update without a blob sha of the caller, a read of the blob sha
\* that fails, for want of a file, for a directory at the path or for want of
\* an answer, does not end the run: the run returns nothing yet, goes on to
\* its write with no blob sha, and the write it then sends carries none.
C30_ReadFailureIsPassedOver ==
    [][\A r \in Runs :
          /\ (ReadsSha(r) /\ (NothingToRead(r) \/ CallFailed(LastCall(r)'))) =>
                 /\ pc'[r] = "put_contents"
                 /\ sha'[r] = None
                 /\ result'[r] = NoResult
          /\ (Writes(r) /\ supplied[r] = None /\ LastRequest(r).got = None) =>
                 /\ LastRequest(r).op = "get_contents"
                 /\ LastRequest(r)'.op = "put_contents"
                 /\ LastRequest(r)'.sha = None
      ]_vars

\* C30 witness: the read of a path that holds a file got no answer, and the
\* run went on to send its write without a blob sha.
C30_Witness ==
    \E r \in Runs :
        /\ operation[r] = "update"
        /\ supplied[r] = None
        /\ Len(calls[r]) >= 2
        /\ calls[r][Len(calls[r]) - 1] = [op |-> "get_contents", status |-> "neterr"]
        /\ calls[r][Len(calls[r])].op = "put_contents"
        /\ LastRequest(r).sha = None
        /\ FileExists(r)

\* The run is a single-file mutation: an update or a delete.
FileRun(r) == operation[r] \in {"update", "delete"}

\* The requests of the run that read the file, and those that change it.
ReadRequests(r) ==
    {i \in 1..Len(requests[r]) : requests[r][i].op = "get_contents"}
WriteRequests(r) ==
    {i \in 1..Len(requests[r]) :
        requests[r][i].op \in {"put_contents", "delete_contents"}}

\* C31: an update or a delete whose request names no branch asks for the
\* default branch at most once, and its read of the file and its write name
\* the same branch, also when the repository's default branch was changed
\* between the two.  (Every run of SpecDefault omits the branch.)
C31_OneBranchPerMutation ==
    \A r \in Runs :
        FileRun(r) =>
            /\ TimesIssued(r, "get_repo") <= 1
            /\ \A i \in ReadRequests(r), j \in WriteRequests(r) :
                   requests[r][i].branch = requests[r][j].branch

\* C31 witness: the default branch was one at the run's read of the file and
\* another at its write; the run asked for the default once, read and wrote
\* on the branch it was told, and succeeded.
C31_Witness ==
    \E r \in Runs :
        /\ FileRun(r)
        /\ Succeeded(r)
        /\ TimesIssued(r, "get_repo") = 1
        /\ ReadRequests(r) # {} /\ WriteRequests(r) # {}
        /\ Len(defaults[r]) = 2
        /\ defaults[r][1] # defaults[r][2]
        /\ LastRequest(r).branch = defaults[r][1]

\* The two runs were given the same operation with the same arguments.
SameArguments(r, q) ==
    /\ operation[r] # None
    /\ operation[r] = operation[q]
    /\ alteracoes[r] = alteracoes[q]
    /\ path[r] = path[q]
    /\ conteudo[r] = conteudo[q]
    /\ supplied[r] = supplied[q]

\* The store answered the first n calls of the two runs alike: the same
\* statuses, and the same default branch and blob shas read.
SameAnswers(r, q, n) ==
    /\ \A i \in 1..n :
           (i <= Len(calls[r]) /\ i <= Len(calls[q])) =>
               calls[r][i].status = calls[q][i].status
    /\ \A i \in 1..n :
           (i <= Len(requests[r]) /\ i <= Len(requests[q])) =>
               requests[r][i].got = requests[q][i].got

\* What a call carried, without what it read.
Payload(request) ==
    [op |-> request.op, branch |-> request.branch, sha |-> request.sha,
     force |-> request.force]

\* What the caller is told, but for the sha of the commit the store made.
Outcome(res) == [rpc |-> res.rpc, sucesso |-> res.sucesso, mensagem |-> res.mensagem]

====
